---- MODULE Spec2Model ----
(***************************************************************************)
(* Model of ruetian-common (src/src/lib.rs): the Roll identifier and its   *)
(* derivations, ClassInRoutine::would_sit_for, Day::succ / succ_mut, and   *)
(* the serde form of Notice::ClassOff with its WhoScope default elision.   *)
(*                                                                         *)
(* The library is a set of value types and pure functions.  Each function  *)
(* is an operator computed as the code computes it; a caller is modelled   *)
(* as a state machine that holds a value and applies one library call per  *)
(* step, recording the call (op, arg) and what it returned (ret).  A Rust  *)
(* panic is the return record Panic.                                       *)
(***************************************************************************)
EXTENDS Integers, Sequences, FiniteSets, TLC

VARIABLES
    roll,      \* the Roll the caller holds: [some, v]
    op,        \* name of the last library call
    arg,       \* its argument(s)
    ret,       \* what it returned: [tag, val]
    day,       \* the Day the caller holds (receiver of succ_mut)
    day0,      \* the Day the caller started from
    nsucc,     \* number of succ_mut calls made so far
    stage,     \* progress of the ClassOff round trip
    notice,    \* the Notice::ClassOff value built by the caller
    wire,      \* its serialized form
    decoded    \* the value deserialized from wire

vars == <<roll, op, arg, ret, day, day0, nsucc, stage, notice, wire, decoded>>

rollVars == <<roll>>
dayVars == <<day, day0, nsucc>>
noticeVars == <<stage, notice, wire, decoded>>

----------------------------------------------------------------------------
(* Bounds of the explored inputs.                                          *)

\* roll-in-department digits tried: 0..MaxRid (the code accepts up to 180)
MaxRid == 185
\* department digits tried: 0..MaxDeptDigits (known tags are 0..13), and 99
MaxDeptDigits == 14
\* cycles tried: 0..MaxCycle, and 255 (the largest u8)
MaxCycle == 2
\* Thirty payloads tried in frequencies and scopes: 0..MaxThirty
MaxThirty == 2
\* succ_mut calls made in a run
MaxCalls == 11

\* u32::MAX = 4294967295 = U32MaxDiv10 * 10 + U32MaxMod10.  TLC's
\* integers end at 2^31 - 1, so the inputs stay below 2^31 and the overflow
\* checks of the parser are stated on these two parts.
U32MaxDiv10 == 429496729
U32MaxMod10 == 5

----------------------------------------------------------------------------
(* Return values.                                                          *)

Ok(tag, val) == [tag |-> tag, val |-> val]
Panic(msg) == [tag |-> "panic", val |-> msg]
Err(msg) == [tag |-> "Err", val |-> msg]
Nothing == [tag |-> "none", val |-> 0]

----------------------------------------------------------------------------
(* Department                                                              *)

\* enum Department, #[repr(u32)]: the discriminants
DepartmentTag ==
    [CE |-> 0, EEE |-> 1, ME |-> 2, CSE |-> 3, ETE |-> 4, IPE |-> 5, GCE |-> 6,
     URP |-> 7, MTE |-> 8, Arch |-> 9, ECE |-> 10, CFPE |-> 11, BECM |-> 12,
     MSE |-> 13, Chem |-> 100, Math |-> 101, Phy |-> 102, Hum |-> 103]

Department == DOMAIN DepartmentTag

\* Department::try_from(n) (num_enum TryFromPrimitive): the variant whose
\* discriminant is n, or an error.
try_from(n) ==
    IF \E d \in Department : DepartmentTag[d] = n
    THEN Ok("Department", CHOOSE d \in Department : DepartmentTag[d] = n)
    ELSE Err("TryFromPrimitiveError")

is_ok(r) == r.tag # "Err"

\* Result::unwrap
unwrap(r) ==
    IF is_ok(r) THEN r ELSE Panic("called Result::unwrap on an Err value")

----------------------------------------------------------------------------
(* Roll                                                                    *)

NoRoll == [some |-> FALSE, v |-> 0]
Roll(v) == [some |-> TRUE, v |-> v]

\* Roll::new
RollNew(v) ==
    IF v < 10000000 /\ is_ok(try_from((v \div 1000) % 100)) /\ v % 1000 <= 180
    THEN Ok("Roll", v)
    ELSE Err("Invalid roll")

\* Roll::department taking three digits instead of two
department_three_digits(v) == unwrap(try_from((v \div 1000) % 1000))

\* Roll::department
department(v) == unwrap(try_from((v \div 1000) % 100))

\* Roll::series dividing by 10_000
series_by_10000(v) == Ok("u32", v \div 10000)

\* Roll::series
series(v) == Ok("u32", v \div 100000)

\* Roll::roll_in_dept
roll_in_dept(v) == Ok("u32", v % 1000)

\* Roll::section with the first range one too long
section_off_by_one(v) ==
    LET r == roll_in_dept(v).val IN
    CASE r \in 1..61 -> Ok("Section", "A")
      [] r \in 62..120 -> Ok("Section", "B")
      [] r \in 121..180 -> Ok("Section", "C")
      [] OTHER -> Panic("Invalid roll in department")

\* Roll::section
section(v) ==
    LET r == roll_in_dept(v).val IN
    CASE r \in 1..60 -> Ok("Section", "A")
      [] r \in 61..120 -> Ok("Section", "B")
      [] r \in 121..180 -> Ok("Section", "C")
      [] OTHER -> Panic("Invalid roll in department")

\* Roll::thirty with the halves of section B swapped
thirty_swapped_in_B(v) ==
    LET r == roll_in_dept(v).val IN
    CASE r \in (1..30) \cup (91..120) \cup (121..150) -> Ok("Thirty", 1)
      [] r \in (31..60) \cup (61..90) \cup (151..180) -> Ok("Thirty", 2)
      [] OTHER -> Panic("Invalid roll in department")

\* Roll::thirty
thirty(v) ==
    LET r == roll_in_dept(v).val IN
    CASE r \in (1..30) \cup (61..90) \cup (121..150) -> Ok("Thirty", 1)
      [] r \in (31..60) \cup (91..120) \cup (151..180) -> Ok("Thirty", 2)
      [] OTHER -> Panic("Invalid roll in department")

\* The decimal digit characters, in order of value
DigitChars == <<"0", "1", "2", "3", "4", "5", "6", "7", "8", "9">>

IsDigit(c) == \E i \in 1..Len(DigitChars) : DigitChars[i] = c

\* char::to_digit(10)
to_digit(c) == (CHOOSE i \in 1..Len(DigitChars) : DigitChars[i] = c) - 1

RECURSIVE ParseDigits(_, _)
\* the digit loop of u32::from_str: acc.checked_mul(10), then
\* checked_add(digit); either overflowing u32::MAX is PosOverflow
ParseDigits(digits, acc) ==
    IF digits = <<>> THEN Ok("u32", acc)
    ELSE IF ~IsDigit(Head(digits)) THEN Err("InvalidDigit")
    ELSE IF acc > U32MaxDiv10 THEN Err("PosOverflow")
    ELSE IF acc = U32MaxDiv10 /\ to_digit(Head(digits)) > U32MaxMod10
         THEN Err("PosOverflow")
    ELSE ParseDigits(Tail(digits), acc * 10 + to_digit(Head(digits)))

\* str::parse::<u32>(): empty input, a lone sign and a non-digit are errors;
\* one leading "+" is skipped; "-" is not a digit of an unsigned type.
ParseU32(s) ==
    IF s = <<>> THEN Err("Empty")
    ELSE IF Len(s) = 1 /\ Head(s) \in {"+", "-"} THEN Err("InvalidDigit")
    ELSE IF Head(s) = "+" THEN ParseDigits(Tail(s), 0)
    ELSE ParseDigits(s, 0)

\* <Roll as FromStr>::from_str
RollFromStr(s) ==
    LET parsed == ParseU32(s) IN
    IF is_ok(parsed) THEN RollNew(parsed.val) ELSE parsed

----------------------------------------------------------------------------
(* ClassFrequency, ClassInRoutine                                          *)

\* enum ClassFrequency; the variants without a payload carry thirty = 0 here
ClassFrequency ==
    {[kind |-> k, thirty |-> 0] :
        k \in {"EveryCycleWithAll", "OddCyclesWithAll", "EvenCyclesWithAll"}}
    \cup {[kind |-> k, thirty |-> t] :
        k \in {"EveryCycleWith", "OddCyclesWith"}, t \in 0..MaxThirty}

\* struct ClassInRoutine
ClassInRoutine(course, teacher, period, class_room, contact_hours, frequency, comment) ==
    [course |-> course, teacher |-> teacher, period |-> period,
     class_room |-> class_room, contact_hours |-> contact_hours,
     frequency |-> frequency, comment |-> comment]

\* `thirty == roll.thirty()` in a match guard: the call panics before the
\* comparison when the roll has no thirty
ThirtyEq(t, v) ==
    LET th == thirty(v) IN
    IF th.tag = "panic" THEN th ELSE Ok("bool", t = th.val)

\* would_sit_for as the doc comment of OddCyclesWith describes it: the other
\* Thirty sits in even cycles
would_sit_for_documented(c, v, cycle) ==
    LET f == c.frequency IN
    CASE f.kind = "EveryCycleWithAll" -> Ok("bool", TRUE)
      [] f.kind = "EveryCycleWith" -> ThirtyEq(f.thirty, v)
      [] f.kind = "OddCyclesWithAll" -> Ok("bool", cycle % 2 # 0)
      [] f.kind = "EvenCyclesWithAll" -> Ok("bool", cycle % 2 = 0)
      [] f.kind = "OddCyclesWith" ->
            LET same == ThirtyEq(f.thirty, v) IN
            IF same.tag = "panic" THEN same
            ELSE Ok("bool", (cycle % 2 # 0) = same.val)

\* ClassInRoutine::would_sit_for
would_sit_for(c, v, cycle) ==
    LET f == c.frequency IN
    CASE f.kind = "EveryCycleWithAll" -> Ok("bool", TRUE)
      [] f.kind = "EveryCycleWith" -> ThirtyEq(f.thirty, v)
      [] f.kind = "OddCyclesWithAll" -> Ok("bool", cycle % 2 # 0)
      [] f.kind = "EvenCyclesWithAll" -> Ok("bool", cycle % 2 = 0)
      [] f.kind = "OddCyclesWith" ->
            IF cycle % 2 # 0 THEN ThirtyEq(f.thirty, v) ELSE Ok("bool", FALSE)

----------------------------------------------------------------------------
(* Inputs of the Roll and routine calls                                    *)

\* series digits tried; 100 and 21000 make values of 10_000_000 and above
SeriesInputs == {0, 1, 16, 18, 99, 100, 21000}

DeptInputs == (0..MaxDeptDigits) \cup {99}

RidInputs == (0..MaxRid) \cup {999}

RollInputs ==
    {s * 100000 + d * 1000 + r :
        s \in SeriesInputs, d \in DeptInputs, r \in RidInputs}

RECURSIVE Decimal(_)
\* the decimal text of n, as a sequence of characters
Decimal(n) ==
    IF n < 10 THEN <<DigitChars[n + 1]>>
    ELSE Append(Decimal(n \div 10), DigitChars[(n % 10) + 1])

StrInputs ==
    {Decimal(n) : n \in {0, 1610001, 1610000, 1800091, 1000181, 1614001,
                         100001, 9999180, 10000001, 2147483647}}
    \cup {Decimal(U32MaxDiv10) \o <<"6">>, Decimal(999999999) \o <<"9">>}
    \cup {<<>>, <<"+">>, <<"-">>, <<"-", "1">>, <<"1", "a">>, <<" ", "1">>,
          <<"0", "0", "1">>, <<"+">> \o Decimal(1610001)}

CycleInputs == (0..MaxCycle) \cup {255}

ClassInputs ==
    {ClassInRoutine("EEE2104", "MFH", 1, "EEE 201", 3, f, "") : f \in ClassFrequency}
    \cup {ClassInRoutine("", "", 255, "", 1, f, "lab") : f \in ClassFrequency}

----------------------------------------------------------------------------
(* The caller of the Roll and routine calls                                *)

Called(o, a, r) == op' = o /\ arg' = a /\ ret' = r

\* the caller keeps the Roll of an Ok result, and holds none after an Err
Kept(r) == IF r.tag = "Roll" THEN Roll(r.val) ELSE NoRoll

\* A Roll is an immutable Copy value: the caller constructs it once, and then
\* makes any number of calls on it, in any order, taking each result before
\* the next call.
Holding == roll.some /\ op \in {"new", "from_str", "held"}

CallRollNew ==
    /\ op = "init"
    /\ \E v \in RollInputs :
          /\ roll' = Kept(RollNew(v))
          /\ Called("new", v, RollNew(v))
    /\ UNCHANGED <<dayVars, noticeVars>>

CallRollFromStr ==
    /\ op = "init"
    /\ \E s \in StrInputs :
          /\ roll' = Kept(RollFromStr(s))
          /\ Called("from_str", s, RollFromStr(s))
    /\ UNCHANGED <<dayVars, noticeVars>>

CallDepartment ==
    /\ Holding
    /\ Called("department", roll.v, department(roll.v))
    /\ UNCHANGED <<rollVars, dayVars, noticeVars>>

CallSeries ==
    /\ Holding
    /\ Called("series", roll.v, series(roll.v))
    /\ UNCHANGED <<rollVars, dayVars, noticeVars>>

CallRollInDept ==
    /\ Holding
    /\ Called("roll_in_dept", roll.v, roll_in_dept(roll.v))
    /\ UNCHANGED <<rollVars, dayVars, noticeVars>>

CallSection ==
    /\ Holding
    /\ Called("section", roll.v, section(roll.v))
    /\ UNCHANGED <<rollVars, dayVars, noticeVars>>

CallThirty ==
    /\ Holding
    /\ Called("thirty", roll.v, thirty(roll.v))
    /\ UNCHANGED <<rollVars, dayVars, noticeVars>>

CallWouldSitFor ==
    /\ Holding
    /\ \E c \in ClassInputs, cycle \in CycleInputs :
          Called("would_sit_for", [class |-> c, roll |-> roll.v, cycle |-> cycle],
                 would_sit_for(c, roll.v, cycle))
    /\ UNCHANGED <<rollVars, dayVars, noticeVars>>

\* the caller is done with the last result and still holds its Roll
DropResult ==
    /\ roll.some
    /\ op \notin {"new", "from_str", "held"}
    /\ Called("held", roll.v, Nothing)
    /\ UNCHANGED <<rollVars, dayVars, noticeVars>>

NextRoll ==
    \/ CallRollNew
    \/ CallRollFromStr
    \/ CallDepartment
    \/ CallSeries
    \/ CallRollInDept
    \/ CallSection
    \/ CallThirty
    \/ CallWouldSitFor
    \/ DropResult

Init ==
    /\ roll = NoRoll
    /\ op = "init" /\ arg = 0 /\ ret = Nothing
    /\ day = "A" /\ day0 = "A" /\ nsucc = 0
    /\ stage = "empty" /\ notice = Nothing /\ wire = Nothing /\ decoded = Nothing

SpecRoll == Init /\ [][NextRoll]_vars

----------------------------------------------------------------------------
(* Day                                                                     *)

\* enum Day, in declaration order
Days == <<"A", "B", "C", "D", "E">>

Day == {Days[i] : i \in 1..Len(Days)}

\* Day::succ wrapping from E to B
succ_wrap_to_B(d) ==
    CASE d = "A" -> "B"
      [] d = "B" -> "C"
      [] d = "C" -> "D"
      [] d = "D" -> "E"
      [] d = "E" -> "B"

\* Day::succ
succ(d) ==
    CASE d = "A" -> "B"
      [] d = "B" -> "C"
      [] d = "C" -> "D"
      [] d = "D" -> "E"
      [] d = "E" -> "A"

\* Day::succ_mut: *self = self.succ(); returns *self
succ_mut(d) == [self |-> succ(d), returned |-> succ(d)]

InitDay ==
    /\ roll = NoRoll
    /\ op = "init" /\ arg = 0 /\ ret = Nothing
    /\ day \in Day /\ day0 = day /\ nsucc = 0
    /\ stage = "empty" /\ notice = Nothing /\ wire = Nothing /\ decoded = Nothing

CallSuccMut ==
    /\ nsucc < MaxCalls
    /\ day' = succ_mut(day).self
    /\ Called("succ_mut", day, Ok("Day", succ_mut(day).returned))
    /\ nsucc' = nsucc + 1
    /\ UNCHANGED <<day0, rollVars, noticeVars>>

\* succ takes self by value (Day is Copy): the caller's Day stays as it was
CallSucc ==
    /\ Called("succ", day, Ok("Day", succ(day)))
    /\ UNCHANGED <<dayVars, rollVars, noticeVars>>

NextDay ==
    \/ CallSuccMut
    \/ CallSucc

SpecDay == InitDay /\ [][NextDay]_vars

----------------------------------------------------------------------------
(* WhoScope, TimeScope, Notice::ClassOff and their serde form              *)

\* enum Section
Section == {"A", "B", "C"}

\* Option<T>: None is the empty sequence, Some(x) is <<x>>
None == <<>>
Some(x) == <<x>>

\* struct WhoScope
WhoScope(sec, th) == [section |-> sec, thirty |-> th]

\* #[derive(Default)] on WhoScope and Thirty: section None, thirty Thirty(0)
WhoScopeDefault == WhoScope(None, 0)

\* WhoScope::is_default with || for &&
is_default_either(w) == w.section = None \/ w.thirty = 0

\* WhoScope::is_default
is_default(w) == w.section = None /\ w.thirty = 0

\* enum TimeScope
AllDay(last) == [kind |-> "AllDay", last |-> last, period |-> 0]
Period(n) == [kind |-> "Period", last |-> None, period |-> n]

\* NaiveDate
NaiveDate(y, m, d) == [year |-> y, month |-> m, day |-> d]

\* Notice::ClassOff
ClassOff(date, time, for_whom, day_off) ==
    [date |-> date, time |-> time, for_whom |-> for_whom, day_off |-> day_off]

(* The serialized document: scalars and null are tagged records, a mapping  *)
(* is a record keyed by the field names of the external form.              *)
Null == [t |-> "null", v |-> "null"]
Num(n) == [t |-> "num", v |-> n]
Str(x) == [t |-> "str", v |-> x]
Bool(b) == [t |-> "bool", v |-> b]

\* NaiveDate as text YYYY-MM-DD: the three numbers in that order
SerDate(d) == Str(<<d.year, d.month, d.day>>)
DeDate(w) == NaiveDate(w.v[1], w.v[2], w.v[3])

\* Option<NaiveDate>
SerOptDate(o) == IF o = None THEN Null ELSE SerDate(o[1])
DeOptDate(w) == IF w.t = "null" THEN None ELSE Some(DeDate(w))

\* Option<Section>: a unit variant is its name
SerOptSection(o) == IF o = None THEN Null ELSE Str(o[1])
DeOptSection(w) == IF w.t = "null" THEN None ELSE Some(w.v)

\* WhoScope, rename_all = "camelCase"; Thirty is a newtype over u8
SerWhoScope(w) == [section |-> SerOptSection(w.section), thirty |-> Num(w.thirty)]
DeWhoScope(w) == WhoScope(DeOptSection(w.section), w.thirty.v)

\* TimeScope, externally tagged, rename_all = "camelCase"
SerTimeScope(t) ==
    IF t.kind = "AllDay" THEN [allDay |-> SerOptDate(t.last)]
    ELSE [period |-> Num(t.period)]
DeTimeScope(w) ==
    IF "allDay" \in DOMAIN w THEN AllDay(DeOptDate(w.allDay))
    ELSE Period(w.period.v)

\* Serialize for Notice::ClassOff: externally tagged as classOff, fields in
\* camelCase, for_whom skipped if WhoScope::is_default
SerClassOff(n) ==
    [classOff |->
        IF is_default(n.for_whom)
        THEN [date |-> SerDate(n.date), time |-> SerTimeScope(n.time),
              dayOff |-> Bool(n.day_off)]
        ELSE [date |-> SerDate(n.date), time |-> SerTimeScope(n.time),
              forWhom |-> SerWhoScope(n.for_whom), dayOff |-> Bool(n.day_off)]]

\* Deserialize for Notice::ClassOff: #[serde(default)] on for_whom
DeClassOff(w) ==
    LET body == w.classOff IN
    ClassOff(DeDate(body.date), DeTimeScope(body.time),
             IF "forWhom" \in DOMAIN body THEN DeWhoScope(body.forWhom)
             ELSE WhoScopeDefault,
             body.dayOff.v)

DateInputs == {NaiveDate(2020, 3, 1), NaiveDate(2021, 1, 2)}

TimeInputs == {AllDay(None), AllDay(Some(NaiveDate(2020, 3, 5))), Period(1)}

WhoInputs ==
    {WhoScope(sec, th) :
        sec \in {None} \cup {Some(x) : x \in Section}, th \in 0..MaxThirty}

\* the caller builds a ClassOff notice
BuildClassOff ==
    /\ stage = "empty"
    /\ \E date \in DateInputs, time \in TimeInputs, who \in WhoInputs,
          day_off \in BOOLEAN :
          notice' = ClassOff(date, time, who, day_off)
    /\ stage' = "built"
    /\ UNCHANGED <<wire, decoded, op, arg, ret, rollVars, dayVars>>

SerializeNotice ==
    /\ stage = "built"
    /\ wire' = SerClassOff(notice)
    /\ stage' = "serialized"
    /\ UNCHANGED <<notice, decoded, op, arg, ret, rollVars, dayVars>>

DeserializeNotice ==
    /\ stage = "serialized"
    /\ decoded' = DeClassOff(wire)
    /\ stage' = "deserialized"
    /\ UNCHANGED <<notice, wire, op, arg, ret, rollVars, dayVars>>

NextNotice ==
    \/ BuildClassOff
    \/ SerializeNotice
    \/ DeserializeNotice

SpecNotice == Init /\ [][NextNotice]_vars

\* the three groups of calls share no state
Next == NextRoll \/ NextDay \/ NextNotice

Spec == Init /\ [][Next]_vars

----------------------------------------------------------------------------
(* Properties                                                              *)

\* the discriminants some Department variant carries
KnownTags == {DepartmentTag[d] : d \in Department}

\* the construction invariants of a Roll as the specification states them
ValidRoll(v) ==
    /\ v < 10000000
    /\ (v \div 1000) % 100 \in KnownTags
    /\ 1 <= v % 1000 /\ v % 1000 <= 180

\* the last call returned this value
Returned(tag, val) == ret.tag = tag /\ ret.val = val

\* C1: Roll::new(v) succeeds if and only if v < 10_000_000, (v / 1000) mod 100
\* is a known Department tag and 1 <= v mod 1000 <= 180.
C1_NewIffValid ==
    op = "new" => (ret.tag = "Roll" <=> ValidRoll(arg))

\* C2: on every Roll a successful Roll::new or Roll::from_str returned, no
\* derivation method and no would_sit_for call panics.
C2_NoPanicOnConstructedRoll ==
    roll.some => ret.tag # "panic"

\* what the derivations return on the Roll of Roll::new(1610001), the
\* department being dept
Scenario1610001(dept, tag) ==
    /\ (op = "new" /\ arg = 1610001) => Returned("Roll", 1610001)
    /\ (roll.some /\ roll.v = 1610001) =>
          /\ op = "series" => Returned("u32", 16)
          /\ op = "department" =>
                Returned("Department", dept) /\ DepartmentTag[ret.val] = tag
          /\ op = "roll_in_dept" => Returned("u32", 1)
          /\ op = "section" => Returned("Section", "A")
          /\ op = "thirty" => Returned("Thirty", 1)
    /\ op = "department" =>
          /\ ret.tag = "Department"
          /\ DepartmentTag[ret.val] = (roll.v \div 1000) % 100
    /\ op = "series" => Returned("u32", roll.v \div 100000)

\* C3 as stated: Roll::new(1610001) succeeds, and that roll has series 16,
\* department EEE (tag 1), roll_in_dept 1, section A and thirty Thirty(1);
\* department() is the Department whose tag is (value / 1000) mod 100 and
\* series() is value / 100_000.
C3_Scenario1610001_EEE == Scenario1610001("EEE", 1)

\* C3, amended: Roll::new(1610001) succeeds, and that roll has series 16,
\* department ECE (tag 10, the digits (1610001 / 1000) mod 100), roll_in_dept
\* 1, section A and thirty Thirty(1); department() is the Department whose
\* tag is (value / 1000) mod 100 and series() is value / 100_000.
C3_Scenario1610001_ECE == Scenario1610001("ECE", 10)

C3_Witness ==
    /\ roll = Roll(1610001)
    /\ op = "department"
    /\ Returned("Department", "ECE")

\* r.thirty() == t, false when r has no thirty
HasThirty(v, t) == thirty(v).tag = "Thirty" /\ thirty(v).val = t

\* the truth table of would_sit_for
SitsPerTable(f, v, cycle) ==
    \/ f.kind = "EveryCycleWithAll"
    \/ f.kind = "EveryCycleWith" /\ HasThirty(v, f.thirty)
    \/ f.kind = "OddCyclesWithAll" /\ cycle % 2 # 0
    \/ f.kind = "EvenCyclesWithAll" /\ cycle % 2 = 0
    \/ f.kind = "OddCyclesWith" /\ cycle % 2 # 0 /\ HasThirty(v, f.thirty)

\* C4: would_sit_for(r, cycle) is true exactly when the truth table says so
\* (cycle 0 counting as even), whatever the other fields of the class are;
\* on a roll whose roll_in_dept is in 1..180 it always returns a bool; for
\* OddCyclesWith(Thirty(1)) and a roll of Thirty(2) it is false in every
\* cycle.
C4_WouldSitForTable ==
    op = "would_sit_for" =>
        LET f == arg.class.frequency IN
        /\ (ret.tag = "bool" /\ ret.val) <=> SitsPerTable(f, arg.roll, arg.cycle)
        /\ ValidRoll(arg.roll) => ret.tag = "bool"
        /\ (f = [kind |-> "OddCyclesWith", thirty |-> 1] /\ HasThirty(arg.roll, 2))
              => Returned("bool", FALSE)

C4_Witness ==
    /\ op = "would_sit_for"
    /\ arg.class.frequency = [kind |-> "OddCyclesWith", thirty |-> 1]
    /\ HasThirty(arg.roll, 2)
    /\ arg.cycle = 0
    /\ arg.class.comment = "lab"
    /\ Returned("bool", FALSE)

\* C5: with frequency OddCyclesWith(t), would_sit_for is true when the cycle
\* is odd and r.thirty() = t, and also true when the cycle is even and
\* r.thirty() is the other Thirty.
C5_OtherThirtyInEvenCycles ==
    (/\ op = "would_sit_for"
     /\ arg.class.frequency.kind = "OddCyclesWith"
     /\ arg.class.frequency.thirty \in {1, 2}
     /\ ValidRoll(arg.roll)) =>
        LET t == arg.class.frequency.thirty IN
        /\ (arg.cycle % 2 # 0 /\ HasThirty(arg.roll, t)) => Returned("bool", TRUE)
        /\ (arg.cycle % 2 = 0 /\ HasThirty(arg.roll, 3 - t)) => Returned("bool", TRUE)

\* C6: r.thirty() is Thirty(1) if and only if r.roll_in_dept() mod 60 is in
\* 1..30; on a roll whose roll_in_dept is in 1..180 it is Thirty(2)
\* otherwise, Thirty(1) on 1..30, 61..90, 121..150 and Thirty(2) on 31..60,
\* 91..120, 151..180; it never returns Thirty(0) or anything but 1 and 2.
C6_ThirtyTable ==
    op = "thirty" =>
        LET rid == roll_in_dept(roll.v).val IN
        /\ Returned("Thirty", 1) <=> rid % 60 \in 1..30
        /\ ret.tag = "Thirty" => ret.val \in {1, 2}
        /\ ValidRoll(roll.v) =>
              /\ ret.tag = "Thirty"
              /\ ret.val = 2 <=> rid % 60 \notin 1..30
              /\ ret.val = 1 <=> rid \in (1..30) \cup (61..90) \cup (121..150)
              /\ ret.val = 2 <=> rid \in (31..60) \cup (91..120) \cup (151..180)

C6_Witness ==
    /\ op = "thirty"
    /\ roll_in_dept(roll.v).val = 120
    /\ Returned("Thirty", 2)

\* the section table, and what the derivations return on the Roll of
\* Roll::new(1800091), its thirty being th
SectionTable(th) ==
    /\ op = "section" =>
          LET rid == roll_in_dept(roll.v).val IN
          /\ Returned("Section", "A") <=> rid \in 1..60
          /\ Returned("Section", "B") <=> rid \in 61..120
          /\ Returned("Section", "C") <=> rid \in 121..180
          /\ ValidRoll(roll.v) => ret.tag = "Section" /\ ret.val \in Section
    /\ (op = "new" /\ arg = 1800091) => Returned("Roll", 1800091)
    /\ (roll.some /\ roll.v = 1800091) =>
          /\ op = "department" => Returned("Department", "CE")
          /\ op = "roll_in_dept" => Returned("u32", 91)
          /\ op = "section" => Returned("Section", "B")
          /\ op = "thirty" => Returned("Thirty", th)

\* C7 as stated: r.section() is A if and only if r.roll_in_dept() is in
\* 1..60, B iff in 61..120, C iff in 121..180; on a roll whose roll_in_dept
\* is in 1..180 exactly one of the three is returned; Roll::new(1800091) has
\* department CE, roll_in_dept 91, section B, thirty Thirty(1).
C7_SectionTable_Thirty1 == SectionTable(1)

\* C7, amended: the same, the Roll of Roll::new(1800091) having thirty
\* Thirty(2) (91 is in 91..120).
C7_SectionTable_Thirty2 == SectionTable(2)

C7_Witness ==
    /\ roll = Roll(1800091)
    /\ op = "section"
    /\ Returned("Section", "B")

\* position of a Day in the declaration order A, B, C, D, E, from 0
DayIndex(d) == (CHOOSE i \in 1..Len(Days) : Days[i] = d) - 1

\* C8: succ follows the cyclic order A, B, C, D, E, A, so five applications
\* give the same Day again; succ_mut sets the receiver to succ of its old
\* value and returns that new value, so after n succ_mut calls the receiver
\* is n steps after the starting Day (the starting Day when n is a multiple
\* of 5); succ leaves the Day it is called on as it was.
C8_DayCycle ==
    /\ DayIndex(succ(day)) = (DayIndex(day) + 1) % 5
    /\ succ(succ(succ(succ(succ(day))))) = day
    /\ DayIndex(day) = (DayIndex(day0) + nsucc) % 5
    /\ nsucc % 5 = 0 => day = day0
    /\ op = "succ_mut" =>
          /\ Returned("Day", day)
          /\ DayIndex(day) = (DayIndex(arg) + 1) % 5
    /\ op = "succ" =>
          /\ arg = day
          /\ ret.tag = "Day"
          /\ DayIndex(ret.val) = (DayIndex(day) + 1) % 5

C8_Witness ==
    /\ day0 = "D"
    /\ nsucc = 10
    /\ op = "succ_mut"
    /\ arg = "C"
    /\ day = "D"

\* C9: is_default holds exactly for section None with Thirty(0); the
\* serialized ClassOff lacks forWhom exactly when for_whom is that scope, so
\* that scope never appears in it; deserializing a ClassOff without forWhom
\* gives that scope; deserialize(serialize(x)) = x for every ClassOff x.
C9_DefaultElision ==
    /\ stage \in {"serialized", "deserialized"} =>
          /\ DOMAIN wire = {"classOff"}
          /\ "forWhom" \notin DOMAIN wire.classOff
                <=> notice.for_whom = WhoScope(None, 0)
          /\ "forWhom" \in DOMAIN wire.classOff
                => wire.classOff.forWhom # SerWhoScope(WhoScope(None, 0))
          /\ {"date", "time", "dayOff"} \subseteq DOMAIN wire.classOff
    /\ stage = "deserialized" =>
          /\ decoded = notice
          /\ "forWhom" \notin DOMAIN wire.classOff
                => decoded.for_whom = WhoScope(None, 0)

C9_Witness ==
    /\ stage = "deserialized"
    /\ notice.for_whom = WhoScope(None, 0)
    /\ DOMAIN wire.classOff = {"date", "time", "dayOff"}
    /\ decoded = notice

\* C10: the department of every Roll that Roll::new accepted has a tag in
\* 0..13, never Chem, Math, Phy or Hum, and the value is
\* series * 100_000 + tag * 1000 + roll_in_dept, for no other tag in 0..13
\* and roll_in_dept in 0..MaxRid.
C10_EngineeringDepartment ==
    /\ op = "department" =>
          /\ ret.tag = "Department"
          /\ ret.val \notin {"Chem", "Math", "Phy", "Hum"}
          /\ DepartmentTag[ret.val] \in 0..13
    /\ (roll.some /\ op \in {"new", "from_str"}) =>
          LET d == department(roll.v)
              s == series(roll.v).val
              r == roll_in_dept(roll.v).val
          IN
          /\ d.tag = "Department"
          /\ DepartmentTag[d.val] \in 0..13
          /\ roll.v = s * 100000 + DepartmentTag[d.val] * 1000 + r
          /\ \A t \in 0..13, q \in 0..MaxRid :
                (roll.v >= t * 1000 + q /\ (roll.v - t * 1000 - q) % 100000 = 0)
                    => (t = DepartmentTag[d.val] /\ q = r)

C10_Witness ==
    /\ roll.some
    /\ roll.v \div 1000 = 100
    /\ op = "department"
    /\ Returned("Department", "CE")

====
